---- MODULE Spec2Model ----
(***************************************************************************)
(* A model of mythril's concolic transaction layer                         *)
(* (mythril/laser/ethereum/transaction/concolic.py) and of its SMT solver *)
(* wrapper (mythril/laser/smt/solver/solver.py).                           *)
(*                                                                         *)
(* Python strings are sequences of one-character strings, so that the     *)
(* empty string is << >> and int(s, 16) can be computed digit by digit.    *)
(***************************************************************************)
EXTENDS Integers, Sequences, FiniteSets, TLC

\* The number of execute_transaction calls of one run.
MaxLayers == 2

(***************************************************************************)
(* Python values                                                           *)
(***************************************************************************)
\* The empty str / bytes value.
EmptyStr == << >>

\* Python's None (distinct from every string of the model).
None == <<"None">>

\* bool(x) of a str-or-None value: None and "" are falsy.
Truthy(x) == x # None /\ x # EmptyStr

\* Python's `a or b`.
PyOr(a, b) == IF Truthy(a) THEN a ELSE b

HexChars == <<"0", "1", "2", "3", "4", "5", "6", "7",
              "8", "9", "a", "b", "c", "d", "e", "f">>

UpperHexChars == <<"0", "1", "2", "3", "4", "5", "6", "7",
                   "8", "9", "A", "B", "C", "D", "E", "F">>

IsHexDigit(c) == \E i \in 1..16 : HexChars[i] = c \/ UpperHexChars[i] = c

\* The value of one base-16 digit, upper or lower case.
HexDigitVal(c) == (CHOOSE i \in 1..16 : HexChars[i] = c \/ UpperHexChars[i] = c) - 1

\* int(s, 16) strips one optional "0x" / "0X" prefix.
StripHexPrefix(s) ==
    IF Len(s) >= 2 /\ s[1] = "0" /\ s[2] \in {"x", "X"}
    THEN SubSeq(s, 3, Len(s))
    ELSE s

\* int(s, 16) succeeds: at least one digit, and only base-16 digits.
WellFormedHex(s) ==
    LET d == StripHexPrefix(s)
    IN  Len(d) >= 1 /\ \A i \in 1..Len(d) : IsHexDigit(d[i])

RECURSIVE HexDigitsValue(_)
HexDigitsValue(d) ==
    IF d = << >> THEN 0
    ELSE 16 * HexDigitsValue(SubSeq(d, 1, Len(d) - 1)) + HexDigitVal(d[Len(d)])

\* int(s, 16) of a well-formed s.
IntBase16(s) == HexDigitsValue(StripHexPrefix(s))

\* symbol_factory.BitVecVal(value, size): the value modulo 2^size. Every
\* non-negative value the model can hold is below 2^31.
BitVecVal(value, size) == IF size >= 31 THEN value ELSE value % (2 ^ size)

\* binascii.b2a_hex(data).decode("utf-8"): two lower-case digits per byte.
RECURSIVE B2aHex(_)
B2aHex(data) ==
    IF data = << >> THEN << >>
    ELSE <<HexChars[(Head(data) \div 16) + 1], HexChars[(Head(data) % 16) + 1]>>
         \o B2aHex(Tail(data))

\* Disassembly(code): the disassembly keeps the bytecode it was built from.
Disassembly(code) == [bytecode |-> code]

(***************************************************************************)
(* The world states of a run and their accounts                            *)
(***************************************************************************)
WorldStates == {1, 2}

CodeA == <<"6", "0">>
CodeB == <<"6", "1">>

\* The accounts of each world state: address -> stored bytecode.  Address 10
\* holds different code in the two world states, address 11 holds no code in
\* the first, and the second world state has no account at address 12.
Accounts(ws) ==
    IF ws = 1
    THEN (10 :> CodeA) @@ (11 :> EmptyStr) @@ (12 :> CodeA)
    ELSE (10 :> CodeB) @@ (11 :> CodeB)

\* open_world_state[callee_address] finds an account.
HasAccount(ws, address) == address \in DOMAIN Accounts(ws)

\* open_world_state[callee_address].code
AccountCode(ws, address) == Disassembly(Accounts(ws)[address])

(***************************************************************************)
(* The keyword arguments of execute_transaction                            *)
(***************************************************************************)
RequiredParams ==
    {"callee_address", "caller_address", "origin_address", "data",
     "gas_limit", "gas_price", "value"}

\* The parameters execute_contract_creation accepts by keyword.
CreationParams == RequiredParams \cup {"code", "track_gas", "contract_name"}

\* The parameters execute_message_call accepts by keyword.
MessageCallParams == RequiredParams \cup {"code", "track_gas"}

OriginAddress == <<"d", "e">>
CallerAddress == <<"c", "1">>
OtherOrigin == <<"b", "b">>

CompleteKwargs(callee, caller) ==
    [callee_address |-> callee, caller_address |-> caller,
     origin_address |-> OriginAddress, data |-> <<96, 0>>,
     gas_limit |-> <<"8">>, gas_price |-> <<"1">>, value |-> <<"0">>]

Without(kw, k) == [x \in (DOMAIN kw) \ {k} |-> kw[x]]

With(kw, k, v) == (k :> v) @@ kw

\* The callee-address strings tried: creation, three accounts (in lower
\* case, upper case and with a prefix) and a string that is not base 16.
CalleeStrings ==
    {EmptyStr, <<"0", "a">>, <<"0", "x", "0", "B">>, <<"c">>, <<"z", "z">>}

\* The keyword arguments tried: complete ones for a creation and for calls
\* of each account, with and without a code override; ones with a required
\* parameter left out; ones with the key "origin", which line 166 reads.
KwargsInputs ==
    LET creation == CompleteKwargs(EmptyStr, CallerAddress)
        self_creation == CompleteKwargs(EmptyStr, EmptyStr)
        call == CompleteKwargs(<<"0", "a">>, CallerAddress)
    IN  {creation, self_creation}
        \cup {CompleteKwargs(ce, CallerAddress) : ce \in CalleeStrings}
        \cup {With(CompleteKwargs(ce, CallerAddress), "code", CodeB) :
                ce \in {<<"0", "a">>, <<"c">>}}
        \cup {Without(kw, k) : kw \in {creation, call}, k \in RequiredParams}
        \cup {Without(self_creation, "origin_address"),
              With(self_creation, "origin", OtherOrigin),
              With(Without(self_creation, "origin_address"), "origin", OtherOrigin),
              With(call, "origin", OtherOrigin),
              With(call, "contract_name", <<"C">>)}

\* Python's binding of **kwargs to a function's parameters: every keyword
\* must be a parameter and every parameter without a default must be given.
BindsTo(kw, params) == DOMAIN kw \subseteq params /\ RequiredParams \subseteq DOMAIN kw

Raise(exc, arg) == [kind |-> "raised", exc |-> exc, arg |-> arg]

Returned(value) == [kind |-> "returned", value |-> value]

NoOutcome == [kind |-> "none"]

(***************************************************************************)
(* State                                                                   *)
(***************************************************************************)
VARIABLES
    open_states,           \* laser_evm.open_states: world states, in order
    work_list,             \* laser_evm.work_list: global states, in order
    nodes,                 \* laser_evm.nodes: the uids registered
    edges,                 \* laser_evm.edges
    requires_statespace,   \* laser_evm.requires_statespace
    ws_node,               \* world_state.node of each world state (a uid or NoNode)
    constraints,           \* the Constraints object of each world state
    transaction_sequence,  \* world_state.transaction_sequence (transaction objects)
    node_objs,             \* every Node object created, by uid
    transactions,          \* every transaction object created, in order
    next_tx_id,            \* tx_id_manager's counter
    next_uid,              \* the uid the next Node gets
    pc,                    \* where the current execute_transaction call is
    kwargs,                \* the keyword arguments of the current / last call
    frame,                 \* the locals of execute_contract_creation / _message_call
    outcome,               \* how the last execute_transaction call ended
    at_entry,              \* what the engine held when the call was entered
    staged_constraints,    \* per linked node, the constraints when it was linked
    calls,                 \* execute_transaction calls made so far
    exec_log               \* the laser_evm.exec invocations of the current call

tx_vars ==
    <<open_states, work_list, nodes, edges, requires_statespace, ws_node,
      constraints, transaction_sequence, node_objs, transactions, next_tx_id,
      next_uid, pc, kwargs, frame, outcome, at_entry, staged_constraints,
      calls, exec_log>>

NoNode == 0

NoFrame == [fn |-> "none"]

\* The sequences over S without repetition.
RECURSIVE Arrangements(_)
Arrangements(S) ==
    IF S = {} THEN {<< >>}
    ELSE {<< >>} \cup UNION {{<<x>> \o t : t \in Arrangements(S \ {x})} : x \in S}

\* node.constraints: a Node starts with a Constraints() of its own (ref 0) or
\* holds a reference to the Constraints object of a world state.
NodeConstraints(uid) ==
    IF node_objs[uid].constraints_ref = 0 THEN << >>
    ELSE constraints[node_objs[uid].constraints_ref]

\* Before the first call: the engine holds a frontier of world states, each
\* with or without the node of an earlier exploration.
TxInitWith(recording, frontier, with_node) ==
    /\ requires_statespace = recording
    /\ open_states = frontier
    /\ ws_node = [ws \in WorldStates |-> IF ws \in with_node THEN ws ELSE NoNode]
    /\ node_objs = [uid \in with_node |-> [constraints_ref |-> 0, states |-> << >>]]
    /\ nodes = IF recording THEN with_node ELSE {}
    /\ work_list = << >>
    /\ edges = << >>
    /\ constraints = [ws \in WorldStates |-> <<"c0">>]
    /\ transaction_sequence = [ws \in WorldStates |-> << >>]
    /\ transactions = << >>
    /\ next_tx_id = 0
    /\ next_uid = Cardinality(WorldStates) + 1
    /\ pc = "idle"
    /\ kwargs = << >>
    /\ frame = NoFrame
    /\ outcome = NoOutcome
    /\ at_entry = [work_list |-> << >>, edges |-> << >>, nodes |-> {},
                   transactions |-> 0, open_states |-> << >>,
                   transaction_sequence |-> [ws \in WorldStates |-> << >>]]
    /\ staged_constraints = << >>
    /\ calls = 0
    /\ exec_log = << >>

TxInit ==
    \E recording \in BOOLEAN, frontier \in Arrangements(WorldStates) :
        \E with_node \in SUBSET {frontier[i] : i \in 1..Len(frontier)} :
            TxInitWith(recording, frontier, with_node)

(***************************************************************************)
(* execute_transaction: the dispatcher                                     *)
(***************************************************************************)
\* Lines 163-173 up to the call of the chosen function: what the dispatcher
\* decides for the keyword arguments kw.
Dispatch(kw) ==
    IF "callee_address" \notin DOMAIN kw
    THEN [kind |-> "raise", exc |-> "IllegalArgumentError", arg |-> "callee_address"]
    ELSE IF kw["callee_address"] = EmptyStr
    THEN IF "caller_address" \notin DOMAIN kw
         THEN [kind |-> "raise", exc |-> "IllegalArgumentError", arg |-> "caller_address"]
         ELSE IF kw["caller_address"] = EmptyStr
         THEN IF "origin" \notin DOMAIN kw
              THEN [kind |-> "raise", exc |-> "IllegalArgumentError", arg |-> "origin"]
              ELSE [kind |-> "creation",
                    kwargs |-> [kw EXCEPT !["caller_address"] = kw["origin"]]]
         ELSE [kind |-> "creation", kwargs |-> kw]
    ELSE IF ~WellFormedHex(kw["callee_address"])
    THEN [kind |-> "raise", exc |-> "ValueError", arg |-> "callee_address"]
    ELSE [kind |-> "call",
          kwargs |-> [kw EXCEPT !["callee_address"] =
                          BitVecVal(IntBase16(kw["callee_address"]), 256)]]

\* The value a parameter is bound to: the keyword's, or the default.
Param(kw, k, default) == IF k \in DOMAIN kw THEN kw[k] ELSE default

\* execute_contract_creation, lines 50-53: detach the frontier, encode data.
EnterCreation(kw) ==
    /\ frame' = [fn |-> "creation", open_states |-> open_states, i |-> 1,
                 args |-> kw, code |-> Param(kw, "code", None),
                 data |-> B2aHex(kw["data"])]
    /\ open_states' = << >>
    /\ pc' = "staging"
    /\ outcome' = NoOutcome

\* execute_message_call without line 102: the frontier is read, not cleared.
EnterMessageCallKeepingFrontier(kw) ==
    /\ frame' = [fn |-> "call", open_states |-> open_states, i |-> 1,
                 args |-> kw, code |-> Param(kw, "code", None),
                 data |-> kw["data"]]
    /\ open_states' = open_states
    /\ pc' = "staging"
    /\ outcome' = NoOutcome

\* execute_message_call, lines 101-102: detach the frontier.
EnterMessageCall(kw) ==
    /\ frame' = [fn |-> "call", open_states |-> open_states, i |-> 1,
                 args |-> kw, code |-> Param(kw, "code", None),
                 data |-> kw["data"]]
    /\ open_states' = << >>
    /\ pc' = "staging"
    /\ outcome' = NoOutcome

\* The call ends with an exception that reaches the caller.
Fail(exc, arg) ==
    /\ pc' = "idle"
    /\ frame' = NoFrame
    /\ outcome' = Raise(exc, arg)

\* execute_transaction(laser_evm, **kw) up to the first loop iteration.
ExecuteTransaction ==
    /\ pc = "idle"
    /\ calls < MaxLayers
    /\ \E kw \in KwargsInputs :
          LET d == Dispatch(kw)
          IN  /\ kwargs' = kw
              /\ IF d.kind = "raise"
                 THEN Fail(d.exc, d.arg) /\ UNCHANGED open_states
                 ELSE IF d.kind = "creation"
                 THEN IF BindsTo(d.kwargs, CreationParams)
                      THEN EnterCreation(d.kwargs)
                      ELSE Fail("TypeError", "execute_contract_creation")
                           /\ UNCHANGED open_states
                 ELSE IF BindsTo(d.kwargs, MessageCallParams)
                      THEN EnterMessageCall(d.kwargs)
                      ELSE Fail("TypeError", "execute_message_call")
                           /\ UNCHANGED open_states
    /\ calls' = calls + 1
    /\ at_entry' = [work_list |-> work_list, edges |-> edges, nodes |-> nodes,
                    transactions |-> Len(transactions),
                    open_states |-> open_states,
                    transaction_sequence |-> transaction_sequence]
    /\ exec_log' = << >>
    /\ UNCHANGED <<work_list, nodes, edges, requires_statespace, ws_node,
                   constraints, transaction_sequence, node_objs, transactions,
                   next_tx_id, next_uid, staged_constraints>>

(***************************************************************************)
(* Staging one transaction per world state of the frontier                 *)
(***************************************************************************)
\* tx_id_manager.get_next_tx_id(): the counter after its increment.
GetNextTxId == next_tx_id + 1

\* ConcreteCalldata(tx_id, calldata)
ConcreteCalldata(tx_id, calldata) ==
    [kind |-> "ConcreteCalldata", tx_id |-> tx_id, calldata |-> calldata]

NoCalldata == [kind |-> "None"]

\* Lines 57-68: the creation transaction built for world state ws.
ContractCreationTransaction(ws, identifier) ==
    [type |-> "ContractCreationTransaction",
     world_state |-> ws,
     identifier |-> identifier,
     gas_price |-> frame.args["gas_price"],
     gas_limit |-> frame.args["gas_limit"],
     origin |-> frame.args["origin_address"],
     code |-> Disassembly(frame.data),
     caller |-> frame.args["caller_address"],
     contract_name |-> Param(frame.args, "contract_name", None),
     callee_address |-> NoNode,
     call_data |-> NoCalldata,
     call_value |-> frame.args["value"]]

\* Line 105: code = code or open_world_state[callee_address].code.bytecode
ResolveCode(code, ws) ==
    PyOr(code, AccountCode(ws, frame.args["callee_address"]).bytecode)

\* The calldata keyed by the allocator's counter as it is at the end of the
\* previous iteration.
CallDataStaleId(next_transaction_id) == ConcreteCalldata(next_tx_id, frame.data)

\* Line 115: the calldata of the message call with identifier next_transaction_id.
CallData(next_transaction_id) == ConcreteCalldata(next_transaction_id, frame.data)

\* Lines 106-117: the message call built for world state ws with the code resolved.
MessageCallTransaction(ws, identifier, code) ==
    [type |-> "MessageCallTransaction",
     world_state |-> ws,
     identifier |-> identifier,
     gas_price |-> frame.args["gas_price"],
     gas_limit |-> frame.args["gas_limit"],
     origin |-> frame.args["origin_address"],
     code |-> Disassembly(code),
     caller |-> frame.args["caller_address"],
     contract_name |-> None,
     callee_address |-> frame.args["callee_address"],
     call_data |-> CallData(identifier),
     call_value |-> frame.args["value"]]

\* Lines 131-132, 153: transaction.initial_global_state() with
\* (transaction, None) on its stack and the new node; tx is the transaction
\* object's place in transactions.
InitialGlobalState(transaction, tx, uid) ==
    [world_state |-> transaction.world_state,
     transaction_stack |-> <<<<tx, None>>>>,
     node |-> uid]

\* Line 141: the world state has a predecessor node and recording is on.
HasPredecessor(ws) == ws_node[ws] # NoNode /\ requires_statespace

\* The edge with its ends exchanged.
TransactionEdgeReversed(node_from, node_to) ==
    [node_from |-> node_to, node_to |-> node_from,
     type |-> "Transaction", condition |-> None]

\* Lines 143-148: the edge from the predecessor node to the new node.
TransactionEdge(node_from, node_to) ==
    [node_from |-> node_from, node_to |-> node_to,
     type |-> "Transaction", condition |-> None]

\* Lines 142-149: the edge log after staging ws with the new node uid.
EdgesAfter(ws, uid) ==
    IF HasPredecessor(ws) THEN Append(edges, TransactionEdge(ws_node[ws], uid))
    ELSE edges

\* Line 140 without the test of line 139: the node is registered always.
NodesAfterUnconditional(uid) == nodes \cup {uid}

\* Lines 139-140: the node table after the new node uid.
NodesAfter(uid) == IF requires_statespace THEN nodes \cup {uid} ELSE nodes

\* Lines 134-137, 150, 154: the new Node; line 150 makes node.constraints the
\* Constraints object of the world state (an assignment of the reference).
NewNode(ws, global_state) ==
    [constraints_ref |-> IF HasPredecessor(ws) THEN ws ELSE 0,
     states |-> <<global_state.transaction_stack[1][1]>>]

\* Line 152 with insert(0, ...) in place of append: the transaction goes to
\* the front of the sequence.
TransactionSequencePrepended(ws, tx) == <<tx>> \o transaction_sequence[ws]

\* Line 152: world_state.transaction_sequence.append(transaction).
TransactionSequenceAfter(ws, tx) == Append(transaction_sequence[ws], tx)

\* Line 155: the work list after global_state.
WorkListAfter(global_state) == Append(work_list, global_state)

\* _setup_global_state_for_execution(laser_evm, transaction)
SetupGlobalStateForExecution(transaction) ==
    LET ws == transaction.world_state
        uid == next_uid
        tx == Len(transactions) + 1
        global_state == InitialGlobalState(transaction, tx, uid)
    IN  /\ next_uid' = next_uid + 1
        /\ nodes' = NodesAfter(uid)
        /\ edges' = EdgesAfter(ws, uid)
        /\ node_objs' = (uid :> NewNode(ws, global_state)) @@ node_objs
        /\ staged_constraints' =
              IF HasPredecessor(ws)
              THEN (uid :> constraints[ws]) @@ staged_constraints
              ELSE staged_constraints
        /\ transaction_sequence' =
              [transaction_sequence EXCEPT ![ws] = TransactionSequenceAfter(ws, tx)]
        /\ transactions' = Append(transactions, transaction)
        /\ work_list' = WorkListAfter(global_state)

\* The loop of execute_contract_creation has a world state left.
Staging(fn) == pc = "staging" /\ frame.fn = fn /\ frame.i <= Len(frame.open_states)

\* One iteration of the loop of execute_contract_creation, lines 55-69.
StageContractCreation ==
    /\ Staging("creation")
    /\ LET open_world_state == frame.open_states[frame.i]
           next_transaction_id == GetNextTxId
       IN  /\ next_tx_id' = next_transaction_id
           /\ SetupGlobalStateForExecution(
                 ContractCreationTransaction(open_world_state, next_transaction_id))
    /\ frame' = [frame EXCEPT !.i = @ + 1]
    /\ UNCHANGED <<open_states, requires_statespace, ws_node, constraints, pc,
                   kwargs, outcome, at_entry, calls, exec_log>>

\* One iteration of the loop of execute_message_call, lines 103-119.  The
\* account lookup of line 114 raises KeyError when the world state has no
\* such account; execute_transaction calls execute_message_call outside its
\* try block, so the KeyError reaches the caller as it is.
StageMessageCall ==
    /\ Staging("call")
    /\ LET open_world_state == frame.open_states[frame.i]
           next_transaction_id == GetNextTxId
       IN  /\ next_tx_id' = next_transaction_id
           /\ IF HasAccount(open_world_state, frame.args["callee_address"])
              THEN LET code == ResolveCode(frame.code, open_world_state)
                   IN  /\ SetupGlobalStateForExecution(
                             MessageCallTransaction(open_world_state,
                                                    next_transaction_id, code))
                       /\ frame' = [frame EXCEPT !.i = @ + 1, !.code = code]
                       /\ UNCHANGED <<pc, outcome>>
              ELSE /\ Fail("KeyError", "callee_address")
                   /\ UNCHANGED <<work_list, nodes, edges, node_objs,
                                  transaction_sequence, transactions, next_uid,
                                  staged_constraints>>
    /\ UNCHANGED <<open_states, requires_statespace, ws_node, constraints,
                   kwargs, at_entry, calls, exec_log>>

(***************************************************************************)
(* The engine                                                              *)
(***************************************************************************)
\* Staging is over and laser_evm.exec has not run yet.
Staged == pc = "staging" /\ frame.i > Len(frame.open_states)

\* What laser_evm.exec may return.
ExecResults == {None, <<"final_states">>}

\* The return statement without the value of the call it returns.
ReturnExecDropped(exec_value) == Returned(None)

\* Lines 71 and 121, "return laser_evm.exec(...)": the function returns what
\* exec returned, and execute_transaction returns that in turn (167, 173).
ReturnExec(exec_value) == Returned(exec_value)

\* The entry of exec_log for an invocation that found the work list wl.
ExecInvocation(wl, value) == [work_list |-> wl, value |-> value]

\* The members of seq at the positions in keep, in order.
RECURSIVE Kept(_, _, _)
Kept(seq, keep, i) ==
    IF i > Len(seq) THEN << >>
    ELSE (IF i \in keep THEN <<seq[i]>> ELSE << >>) \o Kept(seq, keep, i + 1)

\* laser_evm.exec(...) runs the work list to completion: the engine keeps
\* some of the world states open, each now produced by the node of its
\* global state, may have added a path constraint to the Constraints object
\* of the world states it ran, and returns a value.
ExecReturns ==
    /\ Staged
    /\ \E keep \in SUBSET (1..Len(work_list)), added \in BOOLEAN, ret \in ExecResults :
          LET kept == Kept(work_list, keep, 1)
              ran == {work_list[i].world_state : i \in 1..Len(work_list)}
          IN  /\ open_states' = [i \in 1..Len(kept) |-> kept[i].world_state]
              /\ ws_node' = [ws \in WorldStates |->
                               IF \E i \in 1..Len(kept) : kept[i].world_state = ws
                               THEN (CHOOSE g \in {kept[i] : i \in 1..Len(kept)} :
                                        g.world_state = ws).node
                               ELSE ws_node[ws]]
              /\ constraints' = [ws \in WorldStates |->
                                   IF added /\ ws \in ran
                                   THEN Append(constraints[ws], "c1")
                                   ELSE constraints[ws]]
              /\ outcome' = ReturnExec(ret)
              /\ exec_log' = Append(exec_log, ExecInvocation(work_list, ret))
    /\ work_list' = << >>
    /\ pc' = "idle"
    /\ frame' = NoFrame
    /\ UNCHANGED <<nodes, edges, requires_statespace, transaction_sequence,
                   node_objs, transactions, next_tx_id, next_uid, kwargs,
                   at_entry, staged_constraints, calls>>

\* laser_evm.exec(...) raises a KeyError of its own.  execute_transaction
\* calls execute_contract_creation inside its try block and
\* execute_message_call after it (lines 163-173).
ExecRaises ==
    /\ Staged
    /\ IF frame.fn = "creation"
       THEN Fail("IllegalArgumentError", "engine_key")
       ELSE Fail("KeyError", "engine_key")
    /\ exec_log' = Append(exec_log, ExecInvocation(work_list, <<"raised">>))
    /\ UNCHANGED <<open_states, work_list, nodes, edges, requires_statespace,
                   ws_node, constraints, transaction_sequence, node_objs,
                   transactions, next_tx_id, next_uid, kwargs, at_entry,
                   staged_constraints, calls>>

(***************************************************************************)
(* BaseSolver: check() and model(), run by the workers of one process,     *)
(* each on a solver session of its own                                     *)
(***************************************************************************)
\* The check() calls one worker makes.
MaxChecks == 2

Workers == {"w1", "w2"}

\* The stream sys.stdout names when the process starts; the files opened on
\* os.devnull are numbered from 1.
RealStdout == 0

VARIABLES
    sys_stdout,     \* the stream sys.stdout names
    closed_fds,     \* the files on os.devnull that were closed
    next_fd,        \* the number of the next file opened
    leaked,         \* engine output was written to the real standard output
    s_pc,           \* where each worker's check() call is
    old_stdout,     \* check()'s local old_stdout
    dev_null_fd,    \* check()'s local dev_null_fd
    evaluate,       \* check()'s local evaluate
    pending,        \* the exception propagating out of the try statement
    raw_outcome,    \* how the session's last raw.check(args) ended
    has_model,      \* the session's engine has a model to give
    check_outcome,  \* how the worker's last check() call ended
    model_outcome,  \* how the worker's last model() call ended
    checks          \* check() calls each worker has made

solver_vars ==
    <<sys_stdout, closed_fds, next_fd, leaked, s_pc, old_stdout, dev_null_fd,
      evaluate, pending, raw_outcome, has_model, check_outcome, model_outcome,
      checks>>

SolverInit ==
    /\ sys_stdout = RealStdout
    /\ closed_fds = {}
    /\ next_fd = 1
    /\ leaked = FALSE
    /\ s_pc = [w \in Workers |-> "idle"]
    /\ old_stdout = [w \in Workers |-> RealStdout]
    /\ dev_null_fd = [w \in Workers |-> RealStdout]
    /\ evaluate = [w \in Workers |-> "none"]
    /\ pending = [w \in Workers |-> "none"]
    /\ raw_outcome = [w \in Workers |-> "none"]
    /\ has_model = [w \in Workers |-> FALSE]
    /\ check_outcome = [w \in Workers |-> NoOutcome]
    /\ model_outcome = [w \in Workers |-> NoOutcome]
    /\ checks = [w \in Workers |-> 0]

\* The verdicts of z3's check.
CheckSatResults == {"sat", "unsat", "unknown"}

\* How self.raw.check(args) can end: with a verdict, with the engine's own
\* exception, or with an exception of another type.
RawCheckOutcomes == CheckSatResults \cup {"Z3Exception", "OtherException"}

\* Lines 80-85: the try statement around self.raw.check(args).  Only
\* z3.z3types.Z3Exception is caught.
TryRawCheckUncaught(raw) ==
    IF raw \in CheckSatResults
    THEN [evaluate |-> raw, pending |-> "none"]
    ELSE [evaluate |-> "none", pending |-> raw]

TryRawCheck(raw) ==
    IF raw \in CheckSatResults
    THEN [evaluate |-> raw, pending |-> "none"]
    ELSE IF raw = "Z3Exception"
    THEN [evaluate |-> "unknown", pending |-> "none"]
    ELSE [evaluate |-> "none", pending |-> raw]

\* Lines 77-78: old_stdout = sys.stdout; open(os.devnull, "w").
CheckOpen(w) ==
    /\ s_pc[w] = "idle"
    /\ checks[w] < MaxChecks
    /\ checks' = [checks EXCEPT ![w] = @ + 1]
    /\ old_stdout' = [old_stdout EXCEPT ![w] = sys_stdout]
    /\ dev_null_fd' = [dev_null_fd EXCEPT ![w] = next_fd]
    /\ next_fd' = next_fd + 1
    /\ check_outcome' = [check_outcome EXCEPT ![w] = NoOutcome]
    /\ model_outcome' = [model_outcome EXCEPT ![w] = NoOutcome]
    /\ raw_outcome' = [raw_outcome EXCEPT ![w] = "none"]
    /\ s_pc' = [s_pc EXCEPT ![w] = "opened"]
    /\ UNCHANGED <<sys_stdout, closed_fds, leaked, evaluate, pending, has_model>>

\* Line 79: sys.stdout = dev_null_fd; the engine starts to evaluate.
CheckRedirect(w) ==
    /\ s_pc[w] = "opened"
    /\ sys_stdout' = dev_null_fd[w]
    /\ s_pc' = [s_pc EXCEPT ![w] = "raw_check"]
    /\ UNCHANGED <<closed_fds, next_fd, leaked, old_stdout, dev_null_fd, evaluate,
                   pending, raw_outcome, has_model, check_outcome, model_outcome,
                   checks>>

\* Line 81, while self.raw.check(args) runs: the engine writes to whatever
\* sys.stdout names now.
EngineWrites(w) ==
    /\ s_pc[w] = "raw_check"
    /\ leaked' = (leaked \/ sys_stdout = RealStdout)
    /\ UNCHANGED <<sys_stdout, closed_fds, next_fd, s_pc, old_stdout, dev_null_fd,
                   evaluate, pending, raw_outcome, has_model, check_outcome,
                   model_outcome, checks>>

\* Lines 81-85: self.raw.check(args) ends and the try statement handles it.
\* The engine has a model after sat, may have one after unknown, has none
\* after unsat or after it raised.
RawCheck(w) ==
    /\ s_pc[w] = "raw_check"
    /\ \E raw \in RawCheckOutcomes, m \in BOOLEAN :
          /\ m = TRUE \/ raw # "sat"
          /\ m = FALSE \/ raw \in {"sat", "unknown"}
          /\ raw_outcome' = [raw_outcome EXCEPT ![w] = raw]
          /\ has_model' = [has_model EXCEPT ![w] = m]
          /\ evaluate' = [evaluate EXCEPT ![w] = TryRawCheck(raw).evaluate]
          /\ pending' = [pending EXCEPT ![w] = TryRawCheck(raw).pending]
    /\ s_pc' = [s_pc EXCEPT ![w] = "with_exit"]
    /\ UNCHANGED <<sys_stdout, closed_fds, next_fd, leaked, old_stdout, dev_null_fd,
                   check_outcome, model_outcome, checks>>

\* The end of the with statement, line 78: the file is closed; an exception
\* the try statement did not catch leaves check() here.
CheckWithExit(w) ==
    /\ s_pc[w] = "with_exit"
    /\ closed_fds' = closed_fds \cup {dev_null_fd[w]}
    /\ IF pending[w] # "none"
       THEN /\ check_outcome' = [check_outcome EXCEPT ![w] = Raise(pending[w], "check")]
            /\ pending' = [pending EXCEPT ![w] = "none"]
            /\ s_pc' = [s_pc EXCEPT ![w] = "idle"]
       ELSE /\ s_pc' = [s_pc EXCEPT ![w] = "restore"]
            /\ UNCHANGED <<check_outcome, pending>>
    /\ UNCHANGED <<sys_stdout, next_fd, leaked, old_stdout, dev_null_fd, evaluate,
                   raw_outcome, has_model, model_outcome, checks>>

\* Lines 86-87: sys.stdout = old_stdout; return evaluate.
CheckReturn(w) ==
    /\ s_pc[w] = "restore"
    /\ sys_stdout' = old_stdout[w]
    /\ check_outcome' = [check_outcome EXCEPT ![w] = Returned(evaluate[w])]
    /\ s_pc' = [s_pc EXCEPT ![w] = "idle"]
    /\ UNCHANGED <<closed_fds, next_fd, leaked, old_stdout, dev_null_fd, evaluate,
                   pending, raw_outcome, has_model, model_outcome, checks>>

\* self.raw.model(): the engine's model, or Z3Exception when it has none.
RawModel(w) == IF has_model[w] THEN "z3_model" ELSE "Z3Exception"

EmptyModel == << >>

\* Lines 94-98 without the except clause.
TryRawModelUncaught(raw) ==
    IF raw = "Z3Exception" THEN Raise("Z3Exception", "model") ELSE Returned(<<raw>>)

\* Lines 94-98: Model([self.raw.model()]), or Model() on Z3Exception.
TryRawModel(raw) ==
    IF raw = "Z3Exception" THEN Returned(EmptyModel) ELSE Returned(<<raw>>)

\* BaseSolver.model()
Model(w) ==
    /\ s_pc[w] = "idle"
    /\ model_outcome[w] = NoOutcome
    /\ model_outcome' = [model_outcome EXCEPT ![w] = TryRawModel(RawModel(w))]
    /\ UNCHANGED <<sys_stdout, closed_fds, next_fd, leaked, s_pc, old_stdout,
                   dev_null_fd, evaluate, pending, raw_outcome, has_model,
                   check_outcome, checks>>

(***************************************************************************)
(* Singleton: the metaclass of signatures.py, called by the threads of one *)
(* process                                                                 *)
(***************************************************************************)
MaxCtorCalls == 2

Threads == {"t1", "t2"}

\* The classes whose metaclass is Singleton.
SingletonClasses == {"SignatureDB", "AnotherDB"}

\* What a constructor call passes for path: nothing (None) or a path.
CtorArgs == {"none", "path"}

NoHolder == "free"

NoObject == 0

VARIABLES
    lock,          \* the module's lock: its holder, or NoHolder
    instances,     \* Singleton._instances: per class its instance, or NoObject
    objects,       \* the instances whose construction has completed
    next_object,   \* the identity the next new object gets
    results,       \* what the constructor calls have returned so far
    t_pc,          \* where each thread is in Singleton.__call__
    t_cls,         \* cls of the thread's call
    t_args,        \* args of the thread's call
    t_obj,         \* the value the thread holds: the new object, then the result
    t_exc,         \* an exception is propagating out of the thread's call
    ctor_calls     \* constructor calls each thread has made

singleton_vars ==
    <<lock, instances, objects, next_object, results, t_pc, t_cls, t_args,
      t_obj, t_exc, ctor_calls>>

SingletonInit ==
    /\ lock = NoHolder
    /\ instances = [c \in SingletonClasses |-> NoObject]
    /\ objects = {}
    /\ next_object = 1
    /\ results = {}
    /\ t_pc = [t \in Threads |-> "idle"]
    /\ t_cls = [t \in Threads |-> "none"]
    /\ t_args = [t \in Threads |-> "none"]
    /\ t_obj = [t \in Threads |-> NoObject]
    /\ t_exc = [t \in Threads |-> FALSE]
    /\ ctor_calls = [t \in Threads |-> 0]

\* SignatureDB.__init__, lines 118-122: self.path is assigned only when path
\* is None, and line 122 reads it: with a path the constructor raises
\* AttributeError.
InitRaises(args) == args = "path"

\* A thread calls cls(*args): inner_wrapper, line 29.
CallClass(t) ==
    /\ t_pc[t] = "idle"
    /\ ctor_calls[t] < MaxCtorCalls
    /\ \E c \in SingletonClasses, a \in CtorArgs :
          /\ t_cls' = [t_cls EXCEPT ![t] = c]
          /\ t_args' = [t_args EXCEPT ![t] = a]
    /\ ctor_calls' = [ctor_calls EXCEPT ![t] = @ + 1]
    /\ t_pc' = [t_pc EXCEPT ![t] = "acquire"]
    /\ t_obj' = [t_obj EXCEPT ![t] = NoObject]
    /\ t_exc' = [t_exc EXCEPT ![t] = FALSE]
    /\ UNCHANGED <<lock, instances, objects, next_object, results>>

\* inner_wrapper without "with sync_lock": nothing to wait for.
LockNotWaitedFor == TRUE

\* Line 36, "with sync_lock": the lock (line 15) can be taken when no thread
\* holds it.
LockAvailable == lock = NoHolder

\* Line 36: the thread enters the with block.
Acquire(t) ==
    /\ t_pc[t] = "acquire"
    /\ LockAvailable
    /\ lock' = t
    /\ t_pc' = [t_pc EXCEPT ![t] = "check"]
    /\ UNCHANGED <<instances, objects, next_object, results, t_cls, t_args,
                   t_obj, t_exc, ctor_calls>>

\* Line 60: if cls not in cls._instances.
CheckInstance(t) ==
    /\ t_pc[t] = "check"
    /\ t_pc' = [t_pc EXCEPT ![t] = IF instances[t_cls[t]] = NoObject
                                   THEN "create" ELSE "return"]
    /\ UNCHANGED <<lock, instances, objects, next_object, results, t_cls,
                   t_args, t_obj, t_exc, ctor_calls>>

\* Line 61, right-hand side: super(Singleton, cls).__call__(*args, **kwargs)
\* makes a new object and runs __init__ on it, or raises.
Create(t) ==
    /\ t_pc[t] = "create"
    /\ IF InitRaises(t_args[t])
       THEN /\ t_exc' = [t_exc EXCEPT ![t] = TRUE]
            /\ t_pc' = [t_pc EXCEPT ![t] = "exit"]
            /\ UNCHANGED <<objects, next_object, t_obj>>
       ELSE /\ t_obj' = [t_obj EXCEPT ![t] = next_object]
            /\ objects' = objects \cup {[cls |-> t_cls[t], id |-> next_object]}
            /\ next_object' = next_object + 1
            /\ t_pc' = [t_pc EXCEPT ![t] = "store"]
            /\ UNCHANGED t_exc
    /\ UNCHANGED <<lock, instances, results, t_cls, t_args, ctor_calls>>

\* Line 61, the assignment: cls._instances[cls] = the new object.
Store(t) ==
    /\ t_pc[t] = "store"
    /\ instances' = [instances EXCEPT ![t_cls[t]] = t_obj[t]]
    /\ t_pc' = [t_pc EXCEPT ![t] = "return"]
    /\ UNCHANGED <<lock, objects, next_object, results, t_cls, t_args, t_obj,
                   t_exc, ctor_calls>>

\* Line 63: return cls._instances[cls].
ReadInstance(t) ==
    /\ t_pc[t] = "return"
    /\ t_obj' = [t_obj EXCEPT ![t] = instances[t_cls[t]]]
    /\ t_pc' = [t_pc EXCEPT ![t] = "exit"]
    /\ UNCHANGED <<lock, instances, objects, next_object, results, t_cls,
                   t_args, t_exc, ctor_calls>>

\* Lines 36-37: the with block is left, by the return or by the exception,
\* and the lock is released.
Release(t) ==
    /\ t_pc[t] = "exit"
    /\ lock' = NoHolder
    /\ results' = IF t_exc[t] THEN results
                  ELSE results \cup {[thread |-> t, cls |-> t_cls[t], obj |-> t_obj[t]]}
    /\ t_pc' = [t_pc EXCEPT ![t] = "idle"]
    /\ UNCHANGED <<instances, objects, next_object, t_cls, t_args, t_obj, t_exc,
                   ctor_calls>>

(***************************************************************************)
(* SignatureDB: the signature table and the cache of Solidity signatures   *)
(***************************************************************************)
MaxDbCalls == 3

\* Byte signatures as callers write them: with the prefix, without it, and
\* one that is too short.
SigA == <<"a", "a", "b", "b", "c", "c", "d", "d">>

SigB == <<"1", "1", "2", "2", "3", "3", "4", "4">>

SigShort == <<"a", "b">>

HexPrefix == <<"0", "x">>

ByteSigInputs == {HexPrefix \o SigA, SigA, SigB, SigShort}

TextSigs == {"foo()", "bar()"}

\* The methodIdentifiers of the contracts of a solc output, as (name, hash)
\* items in order.
SolcJsonInputs ==
    {<<[name |-> "bar()", hash |-> SigA]>>,
     <<[name |-> "foo()", hash |-> SigB], [name |-> "bar()", hash |-> SigA]>>,
     <<[name |-> "foo()", hash |-> SigShort], [name |-> "bar()", hash |-> SigB]>>}

VARIABLES
    solidity_sigs,   \* self.solidity_sigs: byte signature -> list of names
    signatures,      \* the rows of table signatures, in insertion order
    added,           \* the pairs of the add() calls that have completed
    db_outcome,      \* the last call: its operation, argument and result
    db_calls         \* calls made so far

sigdb_vars == <<solidity_sigs, signatures, added, db_outcome, db_calls>>

SigDbInit ==
    /\ solidity_sigs = << >>
    /\ signatures = << >>
    /\ added = {}
    /\ db_outcome = [op |-> "none", byte_sig |-> << >>, kind |-> "none", value |-> << >>]
    /\ db_calls = 0

\* str.startswith
StartsWith(s, prefix) ==
    Len(s) >= Len(prefix) /\ SubSeq(s, 1, Len(prefix)) = prefix

\* _normalize_byte_sig, lines 150-156.
NormalizeByteSig(byte_sig) ==
    LET prefixed == IF ~StartsWith(byte_sig, HexPrefix)
                    THEN HexPrefix \o byte_sig
                    ELSE byte_sig
    IN  IF Len(prefixed) # 10
        THEN [kind |-> "raise", exc |-> "ValueError", value |-> prefixed]
        ELSE [kind |-> "ok", exc |-> "none", value |-> prefixed]

\* Lines 168-171 and the PRIMARY KEY of lines 129-131: INSERT OR IGNORE.
InsertOrIgnore(rows, row) ==
    IF \E i \in 1..Len(rows) : rows[i] = row THEN rows ELSE Append(rows, row)

Row(byte_sig, text_sig) == [byte_sig |-> byte_sig, text_sig |-> text_sig]

\* Line 191: SELECT text_sig FROM signatures WHERE byte_sig=?
RECURSIVE SelectTextSigs(_, _, _)
SelectTextSigs(rows, byte_sig, i) ==
    IF i > Len(rows) THEN << >>
    ELSE (IF rows[i].byte_sig = byte_sig THEN <<rows[i].text_sig>> ELSE << >>)
         \o SelectTextSigs(rows, byte_sig, i + 1)

DbResult(op, byte_sig, kind, value) ==
    [op |-> op, byte_sig |-> byte_sig, kind |-> kind, value |-> value]

\* add(byte_sig, text_sig), lines 165-171.
Add ==
    /\ db_calls < MaxDbCalls
    /\ \E byte_sig \in ByteSigInputs, text_sig \in TextSigs :
          LET n == NormalizeByteSig(byte_sig)
          IN  IF n.kind = "raise"
              THEN /\ db_outcome' = DbResult("add", byte_sig, "raised", << >>)
                   /\ UNCHANGED <<signatures, added>>
              ELSE /\ signatures' = InsertOrIgnore(signatures, Row(n.value, text_sig))
                   /\ added' = added \cup {Row(n.value, text_sig)}
                   /\ db_outcome' = DbResult("add", byte_sig, "returned", << >>)
    /\ db_calls' = db_calls + 1
    /\ UNCHANGED solidity_sigs

\* Lines 185-197: the cached list when the cache has the key, the rows of
\* the table otherwise.
Lookup(byte_sig) ==
    IF byte_sig \in DOMAIN solidity_sigs
    THEN solidity_sigs[byte_sig]
    ELSE SelectTextSigs(signatures, byte_sig, 1)

\* get(byte_sig), lines 182-197.
Get ==
    /\ db_calls < MaxDbCalls
    /\ \E byte_sig \in ByteSigInputs :
          LET n == NormalizeByteSig(byte_sig)
          IN  IF n.kind = "raise"
              THEN db_outcome' = DbResult("get", byte_sig, "raised", << >>)
              ELSE db_outcome' = DbResult("get", byte_sig, "returned", Lookup(n.value))
    /\ db_calls' = db_calls + 1
    /\ UNCHANGED <<solidity_sigs, signatures, added>>

\* Lines 217-221: the cache after one (name, hash) item.
CacheAfter(sigs, sig, name) ==
    IF sig \in DOMAIN sigs
    THEN [sigs EXCEPT ![sig] = Append(@, name)]
    ELSE (sig :> <<name>>) @@ sigs

\* The loop of add_sigs, lines 216-222, from item i on: each item goes to
\* the cache and then to add(), whose ValueError ends the loop.
RECURSIVE AddSigsFrom(_, _, _, _, _)
AddSigsFrom(items, i, sigs, rows, pairs) ==
    IF i > Len(items)
    THEN [sigs |-> sigs, rows |-> rows, pairs |-> pairs, kind |-> "returned"]
    ELSE LET sig == HexPrefix \o items[i].hash
             name == items[i].name
             cached == CacheAfter(sigs, sig, name)
             n == NormalizeByteSig(sig)
         IN  IF n.kind = "raise"
             THEN [sigs |-> cached, rows |-> rows, pairs |-> pairs, kind |-> "raised"]
             ELSE AddSigsFrom(items, i + 1, cached,
                              InsertOrIgnore(rows, Row(n.value, name)),
                              pairs \cup {Row(n.value, name)})

\* add_sigs(file_path, solc_json), lines 212-222.
AddSigs ==
    /\ db_calls < MaxDbCalls
    /\ \E items \in SolcJsonInputs :
          LET after == AddSigsFrom(items, 1, solidity_sigs, signatures, added)
          IN  /\ solidity_sigs' = after.sigs
              /\ signatures' = after.rows
              /\ added' = after.pairs
              /\ db_outcome' = DbResult("add_sigs", << >>, after.kind, << >>)
    /\ db_calls' = db_calls + 1

(***************************************************************************)
(* Specifications                                                          *)
(***************************************************************************)
vars == <<tx_vars, solver_vars, singleton_vars, sigdb_vars>>

\* The transaction layer, with no solver call in flight.
Init == TxInit /\ SolverInit /\ SingletonInit /\ SigDbInit

Next ==
    \/ ExecuteTransaction /\ UNCHANGED <<solver_vars, singleton_vars, sigdb_vars>>
    \/ StageContractCreation /\ UNCHANGED <<solver_vars, singleton_vars, sigdb_vars>>
    \/ StageMessageCall /\ UNCHANGED <<solver_vars, singleton_vars, sigdb_vars>>
    \/ ExecReturns /\ UNCHANGED <<solver_vars, singleton_vars, sigdb_vars>>
    \/ ExecRaises /\ UNCHANGED <<solver_vars, singleton_vars, sigdb_vars>>

Spec == Init /\ [][Next]_vars

\* The solver sessions of the workers, with no transaction being staged.
SolverSpecInit ==
    TxInitWith(FALSE, << >>, {}) /\ SolverInit /\ SingletonInit /\ SigDbInit

SolverNext ==
    \E w \in Workers :
        \/ CheckOpen(w) /\ UNCHANGED <<tx_vars, singleton_vars, sigdb_vars>>
        \/ CheckRedirect(w) /\ UNCHANGED <<tx_vars, singleton_vars, sigdb_vars>>
        \/ EngineWrites(w) /\ UNCHANGED <<tx_vars, singleton_vars, sigdb_vars>>
        \/ RawCheck(w) /\ UNCHANGED <<tx_vars, singleton_vars, sigdb_vars>>
        \/ CheckWithExit(w) /\ UNCHANGED <<tx_vars, singleton_vars, sigdb_vars>>
        \/ CheckReturn(w) /\ UNCHANGED <<tx_vars, singleton_vars, sigdb_vars>>
        \/ Model(w) /\ UNCHANGED <<tx_vars, singleton_vars, sigdb_vars>>

SolverSpec == SolverSpecInit /\ [][SolverNext]_vars

\* The threads of one process calling the classes, with no transaction
\* being staged and no solver call in flight.
SingletonSpecInit ==
    TxInitWith(FALSE, << >>, {}) /\ SolverInit /\ SingletonInit /\ SigDbInit

SingletonNext ==
    \E t \in Threads :
        \/ CallClass(t) /\ UNCHANGED <<tx_vars, solver_vars, sigdb_vars>>
        \/ Acquire(t) /\ UNCHANGED <<tx_vars, solver_vars, sigdb_vars>>
        \/ CheckInstance(t) /\ UNCHANGED <<tx_vars, solver_vars, sigdb_vars>>
        \/ Create(t) /\ UNCHANGED <<tx_vars, solver_vars, sigdb_vars>>
        \/ Store(t) /\ UNCHANGED <<tx_vars, solver_vars, sigdb_vars>>
        \/ ReadInstance(t) /\ UNCHANGED <<tx_vars, solver_vars, sigdb_vars>>
        \/ Release(t) /\ UNCHANGED <<tx_vars, solver_vars, sigdb_vars>>

SingletonSpec == SingletonSpecInit /\ [][SingletonNext]_vars

\* The calls one thread makes on the signature database, with nothing else
\* running.
SigDbSpecInit == SingletonSpecInit

SigDbNext ==
    \/ Add /\ UNCHANGED <<tx_vars, solver_vars, singleton_vars>>
    \/ Get /\ UNCHANGED <<tx_vars, solver_vars, singleton_vars>>
    \/ AddSigs /\ UNCHANGED <<tx_vars, solver_vars, singleton_vars>>

SigDbSpec == SigDbSpecInit /\ [][SigDbNext]_vars

(***************************************************************************)
(* Properties of the transaction layer                                     *)
(***************************************************************************)
\* The global state staged for the j-th world state of the frontier.
StagedFor(j) == work_list[Len(at_entry.work_list) + j]

\* The transaction of a global state.
TransactionOf(global_state) == transactions[global_state.transaction_stack[1][1]]

\* The positions of the frontier that were staged so far.
StagedPositions == 1..(frame.i - 1)

\* How often ws occurs in seq.
Occurrences(seq, ws) == Cardinality({j \in 1..Len(seq) : seq[j] = ws})

\* The current (or last) call was given both addresses as empty strings.
SelfCreationCall ==
    /\ calls > 0
    /\ {"callee_address", "caller_address", "origin_address"} \subseteq DOMAIN kwargs
    /\ kwargs["callee_address"] = EmptyStr
    /\ kwargs["caller_address"] = EmptyStr

\* C1: when staging has finished and exec has not run yet, the frontier is
\* empty and the work list is its content at entry followed by one global
\* state per world state of the frontier, in frontier order; while a layer
\* is staged no world state gets more transactions than it has places in
\* the frontier.
C1_StagingConsumesFrontier ==
    /\ pc = "staging" =>
          /\ open_states = << >>
          /\ \A ws \in WorldStates :
                Cardinality({t \in (at_entry.transactions + 1)..Len(transactions) :
                                transactions[t].world_state = ws})
                   <= Occurrences(frame.open_states, ws)
    /\ Staged =>
          /\ Len(work_list) = Len(at_entry.work_list) + Len(frame.open_states)
          /\ SubSeq(work_list, 1, Len(at_entry.work_list)) = at_entry.work_list
          /\ Len(transactions) = at_entry.transactions + Len(frame.open_states)
          /\ \A j \in 1..Len(frame.open_states) :
                /\ StagedFor(j).world_state = frame.open_states[j]
                /\ TransactionOf(StagedFor(j)).world_state = frame.open_states[j]

\* C1's case: a message-call layer over a frontier of two world states is staged.
C1_Witness == Staged /\ frame.fn = "call" /\ Len(frame.open_states) = 2

\* C2: a call with empty callee and caller addresses stages a creation for
\* each world state of the frontier, with the origin address as its caller.
C2_SelfCreationUsesOrigin ==
    SelfCreationCall =>
        /\ pc = "staging" \/ outcome.kind = "returned" \/ outcome.arg = "engine_key"
        /\ pc = "staging" => frame.fn = "creation"
        /\ \A t \in (at_entry.transactions + 1)..Len(transactions) :
              /\ transactions[t].type = "ContractCreationTransaction"
              /\ transactions[t].caller = kwargs["origin_address"]

\* C3: a call that lacks a required parameter fails with
\* IllegalArgumentError naming a parameter that is missing.
C3_MissingParameterIsIllegalArgument ==
    (calls > 0 /\ RequiredParams \ DOMAIN kwargs # {}) =>
        /\ pc = "idle"
        /\ outcome.kind = "raised"
        /\ outcome.exc = "IllegalArgumentError"
        /\ outcome.arg \in RequiredParams \ DOMAIN kwargs

\* The edges a layer adds for the frontier positions in js, with recording on.
RECURSIVE ExpectedEdges(_, _)
ExpectedEdges(j, last) ==
    IF j > last THEN << >>
    ELSE (IF ws_node[frame.open_states[j]] # NoNode
          THEN <<[node_from |-> ws_node[frame.open_states[j]],
                  node_to |-> StagedFor(j).node,
                  type |-> "Transaction", condition |-> None]>>
          ELSE << >>) \o ExpectedEdges(j + 1, last)

\* C7: with recording on, the edges a layer has added are, in staging order,
\* one Transaction edge without condition per staged world state that has a
\* predecessor node, from that node to the node created for the world state;
\* a world state without predecessor adds none and is staged all the same.
C7_OneEdgePerPredecessor ==
    (pc = "staging" /\ requires_statespace) =>
        /\ edges = at_entry.edges \o ExpectedEdges(1, frame.i - 1)
        /\ Len(edges) - Len(at_entry.edges) =
              Cardinality({j \in StagedPositions : ws_node[frame.open_states[j]] # NoNode})
        /\ Len(work_list) = Len(at_entry.work_list) + frame.i - 1
        /\ \A j \in StagedPositions :
              /\ StagedFor(j).node \notin at_entry.nodes
              /\ StagedFor(j).node \in nodes
              /\ StagedFor(j).node # ws_node[frame.open_states[j]]

\* C7's case: a layer is staged with recording on over two world states, one
\* with a predecessor node and one without.
C7_Witness ==
    /\ Staged /\ requires_statespace
    /\ Len(frame.open_states) = 2
    /\ ws_node[frame.open_states[1]] = NoNode
    /\ ws_node[frame.open_states[2]] # NoNode
    /\ Len(edges) = Len(at_entry.edges) + 1

\* C8: the constraints a linked node holds are the constraints its world
\* state had when the node was linked, also after constraints were added to
\* the world state.
C8_SnapshotIsPointInTime ==
    \A uid \in DOMAIN staged_constraints :
        NodeConstraints(uid) = staged_constraints[uid]

\* C9: without a code override every message call of the layer runs the code
\* stored in the callee account of its own world state; with an override
\* every one runs the override.
C9_CodeOfOwnWorldState ==
    (pc = "staging" /\ frame.fn = "call") =>
        \A j \in StagedPositions :
            LET override == Param(frame.args, "code", None)
                tx == TransactionOf(StagedFor(j))
            IN  IF Truthy(override)
                THEN tx.code.bytecode = override
                ELSE tx.code.bytecode =
                        Accounts(frame.open_states[j])[frame.args["callee_address"]]

\* C10: the identifiers of the staged transactions increase strictly in
\* staging order (so no two are equal), over all layers, and the calldata
\* of a message call is keyed by the identifier of its transaction.
C10_IdentifiersIncrease ==
    /\ \A t, u \in 1..Len(transactions) :
          t < u => transactions[t].identifier < transactions[u].identifier
    /\ \A t \in 1..Len(transactions) :
          transactions[t].type = "MessageCallTransaction" =>
              /\ transactions[t].call_data.kind = "ConcreteCalldata"
              /\ transactions[t].call_data.tx_id = transactions[t].identifier

\* C10's case: a creation layer and a message-call layer were staged, the
\* second over two world states.
C10_Witness ==
    /\ Len(transactions) >= 3
    /\ \E t, u \in 1..Len(transactions) :
          /\ transactions[t].type = "ContractCreationTransaction"
          /\ transactions[u].type = "MessageCallTransaction"

(***************************************************************************)
(* Properties of the solver sessions                                       *)
(***************************************************************************)
\* C4: when the engine raised its own exception during the query of a
\* check() call, the call carries no exception out of the try statement and
\* returns unknown.
C4_EngineCrashGivesUnknown ==
    \A w \in Workers :
        raw_outcome[w] = "Z3Exception" =>
            /\ pending[w] = "none"
            /\ s_pc[w] \in {"with_exit", "restore"} => evaluate[w] = "unknown"
            /\ s_pc[w] = "idle" =>
                  /\ check_outcome[w].kind = "returned"
                  /\ check_outcome[w].value = "unknown"

\* C4's case: a check() call whose query raised Z3Exception has returned.
C4_Witness ==
    \E w \in Workers :
        /\ s_pc[w] = "idle"
        /\ raw_outcome[w] = "Z3Exception"
        /\ check_outcome[w].kind # "none"

\* C5: model() on a session whose engine has no model to give returns the
\* empty model and raises nothing.
C5_NoModelGivesEmptyModel ==
    \A w \in Workers :
        (model_outcome[w].kind # "none" /\ ~has_model[w]) =>
            /\ model_outcome[w].kind = "returned"
            /\ model_outcome[w].value = EmptyModel

\* C5's case: model() was called after a check() whose query crashed, while
\* the other worker's session, never checked, was asked for a model too.
C5_Witness ==
    \E w, v \in Workers :
        /\ w # v
        /\ raw_outcome[w] = "Z3Exception"
        /\ model_outcome[w].kind # "none"
        /\ checks[v] = 0
        /\ model_outcome[v].kind # "none"

\* C6: while the engine evaluates inside check(), sys.stdout names an open
\* file on the null device, and nothing the engine writes reaches the real
\* standard output.
C6_StdoutNullDuringCheck ==
    /\ ~leaked
    /\ \A w \in Workers :
          s_pc[w] = "raw_check" =>
              /\ sys_stdout # RealStdout
              /\ sys_stdout \notin closed_fds

(***************************************************************************)
(* Further properties of the transaction layer                             *)
(***************************************************************************)
\* The current (or last) call was given exactly the documented parameters.
CompleteCall ==
    /\ calls > 0
    /\ RequiredParams \subseteq DOMAIN kwargs
    /\ DOMAIN kwargs \subseteq MessageCallParams

\* The call ended before any layer was entered: the dispatcher or the
\* binding of its keyword arguments raised.
DispatchFailed ==
    /\ pc = "idle"
    /\ outcome.kind = "raised"
    /\ outcome.exc \in {"IllegalArgumentError", "TypeError", "ValueError"}
    /\ outcome.arg # "engine_key"

\* The integers the callee strings of the model denote in base 16, written
\* out one by one.
ExpectedCallee(s) ==
    IF s = <<"0", "a">> THEN 10
    ELSE IF s = <<"0", "x", "0", "B">> THEN 11
    ELSE IF s = <<"c">> THEN 12
    ELSE 0 - 1

\* C11: a call with an empty callee address runs a contract creation, a
\* call with any other well-formed base-16 callee address runs a message
\* call whose callee is the integer the string denotes, and no other call
\* runs either.
C11_DispatchByCallee ==
    CompleteCall =>
        LET callee == kwargs["callee_address"]
        IN  /\ callee = EmptyStr =>
                  /\ ~DispatchFailed
                  /\ pc = "staging" => frame.fn = "creation"
            /\ (callee # EmptyStr /\ ExpectedCallee(callee) >= 0) =>
                  /\ ~DispatchFailed
                  /\ pc = "staging" =>
                        /\ frame.fn = "call"
                        /\ frame.args["callee_address"] = ExpectedCallee(callee)
            /\ (callee # EmptyStr /\ ExpectedCallee(callee) < 0) => pc # "staging"

\* C11 for the calls that name a caller: the part of C11 that the lookup of
\* kwargs["origin"] in line 166 does not reach.
C11_DispatchByCalleeWithCaller ==
    (CompleteCall /\ kwargs["caller_address"] # EmptyStr) => C11_DispatchByCallee

\* The call has ended by returning a value.
CallReturned == calls > 0 /\ pc = "idle" /\ outcome.kind = "returned"

\* C12: a call that returns has invoked laser_evm.exec exactly once, when
\* the work list held one execution state for every world state of the
\* frontier the call found (none for an empty frontier), and returns the
\* value exec returned; while world states are being staged exec has not
\* been invoked.
C12_ExecOnceAfterStaging ==
    /\ pc = "staging" => exec_log = << >>
    /\ CallReturned =>
          /\ Len(exec_log) = 1
          /\ LET wl == exec_log[1].work_list
                 before == Len(at_entry.work_list)
                 n == Len(at_entry.open_states)
             IN  /\ Len(wl) = before + n
                 /\ \A j \in 1..n : wl[before + j].world_state = at_entry.open_states[j]
          /\ outcome.value = exec_log[1].value

C12_Witness ==
    /\ CallReturned
    /\ Len(at_entry.open_states) = 2
    /\ Len(exec_log) = 1
    /\ Len(exec_log[1].work_list) = 2
    /\ outcome.value = <<"final_states">>

\* A call that found an empty frontier has returned what exec returned.
C12_WitnessEmptyFrontier ==
    /\ CallReturned
    /\ at_entry.open_states = << >>
    /\ Len(exec_log) = 1
    /\ exec_log[1].work_list = << >>
    /\ outcome.value = <<"final_states">>

\* The transactions from..to of the log that were built for world state ws,
\* in the order they were staged.
RECURSIVE StagedInOrder(_, _, _)
StagedInOrder(ws, from, to) ==
    IF from > to THEN << >>
    ELSE (IF transactions[from].world_state = ws THEN <<from>> ELSE << >>)
         \o StagedInOrder(ws, from + 1, to)

\* C13: the transaction sequence of a world state is what it was when the
\* call was entered, followed by the transactions this call staged for the
\* world state and nothing else; over the layers it lists the transactions
\* staged for the world state in staging order.
C13_TransactionSequenceAppends ==
    \A ws \in WorldStates :
        /\ transaction_sequence[ws] =
              at_entry.transaction_sequence[ws]
              \o StagedInOrder(ws, at_entry.transactions + 1, Len(transactions))
        /\ transaction_sequence[ws] = StagedInOrder(ws, 1, Len(transactions))

C13_Witness ==
    /\ pc = "staging"
    /\ \E ws \in WorldStates :
          /\ Len(at_entry.transaction_sequence[ws]) = 1
          /\ Len(transaction_sequence[ws]) = 2
          /\ transaction_sequence[ws][2] = Len(transactions)

\* The nodes of the execution states on the work list.
StagedNodes == {work_list[j].node : j \in 1..Len(work_list)}

\* C14: while a layer is staged with recording off, the node table and the
\* edge log stay as the call found them, whether or not the world states
\* have a predecessor node; with recording on or off each staged execution
\* state refers to a node of its own that no world state and no earlier
\* execution state refers to and whose state list holds that execution
\* state alone; with recording on that node is in the node table.
C14_RecordingFlagGovernsGraph ==
    pc = "staging" =>
        /\ ~requires_statespace => (nodes = at_entry.nodes /\ edges = at_entry.edges)
        /\ Len(work_list) = Len(at_entry.work_list) + frame.i - 1
        /\ \A j \in StagedPositions :
              LET global_state == StagedFor(j)
              IN  /\ global_state.node \in DOMAIN node_objs
                  /\ node_objs[global_state.node].states =
                        <<global_state.transaction_stack[1][1]>>
                  /\ global_state.node \notin at_entry.nodes
                  /\ global_state.node \notin {ws_node[ws] : ws \in WorldStates}
                  /\ \A k \in StagedPositions :
                        k # j => StagedFor(k).node # global_state.node
                  /\ requires_statespace <=> global_state.node \in nodes

\* C14's case: recording is off and a layer of two world states has been
\* staged, one with a node of an earlier exploration and one without.
C14_Witness ==
    /\ Staged /\ ~requires_statespace
    /\ Len(frame.open_states) = 2
    /\ ws_node[frame.open_states[1]] # NoNode
    /\ ws_node[frame.open_states[2]] = NoNode
    /\ Len(work_list) = 2

\* The keys the dispatcher itself looks up in kwargs (lines 164-170).
DispatcherKeys == {"callee_address", "caller_address", "origin"}

\* The call has ended with the exception exc.
CallRaised(exc) == calls > 0 /\ pc = "idle" /\ outcome.kind = "raised" /\ outcome.exc = exc

\* C18: a call ends with IllegalArgumentError only when a key the
\* dispatcher looks up is absent from kwargs, and then before anything was
\* staged or explored; a KeyError raised while a layer is staged or explored
\* never ends the call with IllegalArgumentError, in a creation layer as in
\* a message-call layer.
C18_IllegalArgumentOnlyForMissingKey ==
    CallRaised("IllegalArgumentError") =>
        /\ outcome.arg \in DispatcherKeys
        /\ outcome.arg \notin DOMAIN kwargs
        /\ exec_log = << >>
        /\ Len(transactions) = at_entry.transactions

\* The world states the engine still holds: those of the frontier and those
\* of the execution states on the work list.
HeldWorldStates ==
    {open_states[j] : j \in 1..Len(open_states)}
    \cup {work_list[j].world_state : j \in 1..Len(work_list)}

\* C19: when a call has ended with an exception, every world state of the
\* frontier the call found is still in the frontier or has its execution
\* state on the work list.
C19_FailedStagingKeepsWorldStates ==
    (calls > 0 /\ pc = "idle" /\ outcome.kind = "raised") =>
        \A j \in 1..Len(at_entry.open_states) :
            at_entry.open_states[j] \in HeldWorldStates

\* C19 for the calls that fail before the frontier is detached: the
\* dispatcher or the binding of the keyword arguments raised.
C19_FailedDispatchKeepsWorldStates ==
    DispatchFailed => open_states = at_entry.open_states

(***************************************************************************)
(* Further properties of the solver layer                                  *)
(***************************************************************************)
\* Every worker has made one check() call and every call has returned.
AllChecksReturned ==
    \A w \in Workers :
        /\ s_pc[w] = "idle"
        /\ checks[w] = 1
        /\ check_outcome[w].kind = "returned"

\* C16: when every worker has run one check() call on a session of its own
\* and all the calls have returned, however they overlapped, sys.stdout is
\* the stream it was before the first call, and that stream is open.
C16_StdoutRestoredAfterOverlappingChecks ==
    AllChecksReturned =>
        /\ sys_stdout = RealStdout
        /\ sys_stdout \notin closed_fds

\* The worker w has left check() and no other worker has called it.
CheckExitedAlone(w) ==
    /\ s_pc[w] = "idle"
    /\ check_outcome[w].kind \in {"returned", "raised"}
    /\ \A v \in Workers \ {w} : checks[v] = 0

\* C17: when a worker has left check(), by return or by an exception that
\* is not the engine's Z3Exception, and no other worker touched sys.stdout,
\* sys.stdout is the stream it was when the call was entered.
C17_StdoutRestoredOnEveryExit ==
    \A w \in Workers : CheckExitedAlone(w) => sys_stdout = old_stdout[w]

\* C17 for the calls that return: line 86 has run.
C17_StdoutRestoredOnReturn ==
    \A w \in Workers :
        (CheckExitedAlone(w) /\ check_outcome[w].kind = "returned") =>
            sys_stdout = old_stdout[w]

(***************************************************************************)
(* Properties of Singleton                                                 *)
(***************************************************************************)
\* The threads inside the with block of inner_wrapper.
InsideLock == {t \in Threads : t_pc[t] \in {"check", "create", "store", "return", "exit"}}

\* C15: whatever classes and arguments the threads call and however the
\* calls overlap, at most one instance of a class is ever constructed, every
\* call that returns for the class returns that instance, and at most one
\* thread at a time is between the test of line 60 and the return of line
\* 63.
C15_OneInstancePerClass ==
    /\ Cardinality(InsideLock) <= 1
    /\ \A c \in SingletonClasses :
          /\ Cardinality({o \in objects : o.cls = c}) <= 1
          /\ \A r \in results :
                r.cls = c => /\ r.obj = instances[c]
                             /\ [cls |-> c, id |-> r.obj] \in objects

\* C15's case: both threads have called the same class, one of them waits
\* for the lock while the other is about to construct the instance, and an
\* earlier call for another class has returned.
C15_Witness ==
    /\ \E t \in Threads, u \in Threads :
          /\ t_pc[t] = "create" /\ t_pc[u] = "acquire"
          /\ t_cls[t] = t_cls[u]
          /\ ~InitRaises(t_args[t])
    /\ results # {}

\* Both threads have returned the one instance of a class.
C15_WitnessBothReturned ==
    \E c \in SingletonClasses :
        \A t \in Threads : \E r \in results : r.thread = t /\ r.cls = c

(***************************************************************************)
(* Properties of SignatureDB                                               *)
(***************************************************************************)
\* The members of a list.
Members(seq) == {seq[i] : i \in 1..Len(seq)}

\* A get() has returned a list with every text signature that a completed
\* add() stored for the byte signature it was asked for.
GetContainsAdded ==
    (db_outcome.op = "get" /\ db_outcome.kind = "returned") =>
        \A pair \in added :
            pair.byte_sig = NormalizeByteSig(db_outcome.byte_sig).value =>
                pair.text_sig \in Members(db_outcome.value)

\* The table holds no pair twice, and holds the pairs that were added.
StoredPairsAreAddedOnce ==
    /\ \A i \in 1..Len(signatures), j \in 1..Len(signatures) :
          signatures[i] = signatures[j] => i = j
    /\ Members(signatures) = added

\* C20: a get() returns every text signature that an add() stored before for
\* the same byte signature, written with or without the 0x prefix, whatever
\* add() and add_sigs() calls came in between; and a pair that is added
\* again is stored once.
C20_GetReturnsWhatWasAdded == GetContainsAdded /\ StoredPairsAreAddedOnce

\* C20, second part alone: adding a pair that is stored leaves the table as
\* it is.
C20_AddIsIdempotent == StoredPairsAreAddedOnce

\* C20, first part for the signatures the cache does not hold.
C20_GetReturnsAddedWhenNotCached ==
    (NormalizeByteSig(db_outcome.byte_sig).value \notin DOMAIN solidity_sigs) =>
        GetContainsAdded

====
